---- MODULE Spec2Model ----
(***************************************************************************)
(* DataFrameInteraction (shared/ebm_native/DataFrameInteraction.cpp):      *)
(* construction, ownership and teardown of the gradient buffer and the     *)
(* per-feature binned-input buffers.                                       *)
(*                                                                         *)
(* The heap is a sequence of blocks; a pointer is an index into it and 0   *)
(* is nullptr.  malloc may fail at every call.  Initialize is followed     *)
(* through its program positions (pc); Destruct is one step.  The          *)
(* arguments of Initialize are fixed in the initial state.  The target     *)
(* array is read one element per loop iteration (each element is read once *)
(* by this file); the raw bin data is a whole array.                       *)
(***************************************************************************)
EXTENDS Integers, Sequences, FiniteSets

\* ---------------------------------------------------------------- bounds
MaxSamples == 2
MaxFeatures == 2
MaxBins == 2
\* cSamples * cFeatureAtomics, the length of aBinnedData, is at most this
MaxCells == 4

\* ------------------------------------------------- types of EbmInternal.h
\* largest size_t, narrowed to two bits so that cSamples * cVectorLength
\* can overflow with arrays of a few elements
SizeMax == 3
\* largest StorageDataType, the narrow storage type
StorageMax == 2
\* the descriptor value that denotes regression
k_regression == 0 - 2
\* the IntEbmType values the caller's arrays hold: one negative value, the
\* values StorageDataType holds, and one value too large for it
IntVals == (0 - 1) .. (StorageMax + 1)

IsNumberConvertable(max, v) == 0 <= v /\ v <= max

IsMultiplyError(a, b) == a * b > SizeMax

IsClassification(d) == d >= 0

GetVectorLength(d) == IF d <= 2 THEN 1 ELSE d

\* static_cast<StorageDataType>(inputData)
NarrowToStorage(v) == v % (StorageMax + 1)

\* -------------------------------------------------------------- the heap
\* the content of memory malloc returns
Uninit == 0 - 1
\* what InitializeGradients writes into an element of the gradient buffer
Filled == 0

NewBlock(kind, n) ==
    [kind |-> kind, live |-> TRUE, frees |-> 0, data |-> [i \in 1..n |-> Uninit]]

\* free(p): free(nullptr) does nothing
Free(h, p) ==
    IF p \in DOMAIN h
    THEN [h EXCEPT ![p].live = FALSE, ![p].frees = @ + 1]
    ELSE h

RECURSIVE FreeSeq(_, _)
FreeSeq(h, ps) ==
    IF ps = <<>> THEN h ELSE FreeSeq(Free(h, Head(ps)), Tail(ps))

LogFrees(log, ps) == log \o SelectSeq(ps, LAMBDA p : p # 0)

VARIABLES
    \* the arguments of Initialize
    cFeatureAtomics, aFeatureAtomics, cSamples, aBinnedData,
    runtimeLearningTypeOrCountTargetClasses,
    \* the object
    m_aGradients, m_aaInputData, m_cSamples, m_cFeatureAtomics,
    \* the heap, and the pointers passed to free() in order
    heap, freeLog,
    \* locals of Initialize
    pTargetFrom, data, aGradients,
    \* locals of ConstructInputData
    aaInputDataTo, paInputDataTo, pFeatureAtomic, pInputDataTo,
    pInputDataFrom, inputData,
    \* program position, return value, the condition logged on failure,
    \* and the phases entered so far
    pc, result, err, phases

argVars == <<cFeatureAtomics, aFeatureAtomics, cSamples, aBinnedData,
             runtimeLearningTypeOrCountTargetClasses>>
objVars == <<m_aGradients, m_aaInputData, m_cSamples, m_cFeatureAtomics>>
heapVars == <<heap, freeLog>>
targetVars == <<pTargetFrom, data>>
inputVars == <<aaInputDataTo, paInputDataTo, pFeatureAtomic, pInputDataTo,
               pInputDataFrom, inputData>>
vars == <<argVars, objVars, heapVars, targetVars, aGradients, inputVars,
          pc, result, err, phases>>

\* feature descriptors: each selects its own block of aBinnedData
FeatureArrays(n) ==
    { fa \in [1..n -> [iFeatureAtomicData : 0..(n - 1), cBins : 1..MaxBins]] :
        \A f \in 1..n : \A g \in 1..n :
            fa[f].iFeatureAtomicData = fa[g].iFeatureAtomicData => f = g }

Descriptors == {k_regression} \cup (1..SizeMax)

Init ==
    /\ cSamples \in 0..MaxSamples
    /\ cFeatureAtomics \in 0..MaxFeatures
    /\ cSamples * cFeatureAtomics <= MaxCells
    /\ aFeatureAtomics \in FeatureArrays(cFeatureAtomics)
    /\ aBinnedData \in [1..(cSamples * cFeatureAtomics) -> IntVals]
    /\ runtimeLearningTypeOrCountTargetClasses \in
          IF cSamples = 0 THEN Descriptors \cup {0} ELSE Descriptors
    /\ m_aGradients = 0
    /\ m_aaInputData = 0
    /\ m_cSamples = 0
    /\ m_cFeatureAtomics = 0
    /\ heap = <<>>
    /\ freeLog = <<>>
    /\ pTargetFrom = 0
    /\ data = Uninit
    /\ aGradients = 0
    /\ aaInputDataTo = 0
    /\ paInputDataTo = 0
    /\ pFeatureAtomic = 0
    /\ pInputDataTo = [base |-> 0, off |-> 0]
    /\ pInputDataFrom = 0
    /\ inputData = Uninit
    /\ pc = "new"
    /\ result = "none"
    /\ err = "None"
    /\ phases = <<>>

\* return true.  The function returns only a bool; err names the condition
\* the failing branch logs: NegativeLabel, LabelOverflow, LabelOutOfRange
\* (lines 193, 197/201, 206), SizeOverflow (42), AllocationFailure (49, 84,
\* 94), GradientInitFailed (60), NegativeBinIndex, BinIndexOverflow,
\* BinIndexOutOfRange (105, 109/113, 118).
ReturnError(kind) ==
    /\ pc' = "returned"
    /\ result' = "failure"
    /\ err' = kind

\* a plausible slip: the feature count stored only when there are samples
InitializeEnter_CountInsideIf ==
    /\ pc = "new"
    /\ m_aGradients = 0 /\ m_aaInputData = 0 /\ m_cSamples = 0
    /\ IF cSamples # 0
       THEN /\ IF IsClassification(runtimeLearningTypeOrCountTargetClasses)
               THEN pc' = "validate" /\ phases' = Append(phases, "validate")
               ELSE pc' = "gradients" /\ phases' = phases
            /\ UNCHANGED <<objVars, result>>
       ELSE /\ pc' = "returned"
            /\ result' = "success"
            /\ UNCHANGED <<objVars, phases>>
    /\ UNCHANGED <<argVars, heapVars, targetVars, aGradients, inputVars, err>>

\* Initialize up to the first phase; the whole call when cSamples is 0
InitializeEnter ==
    /\ pc = "new"
    /\ m_aGradients = 0 /\ m_aaInputData = 0 /\ m_cSamples = 0
    /\ IF cSamples # 0
       THEN /\ IF IsClassification(runtimeLearningTypeOrCountTargetClasses)
               THEN pc' = "validate" /\ phases' = Append(phases, "validate")
               ELSE pc' = "gradients" /\ phases' = phases
            /\ UNCHANGED <<objVars, result>>
       ELSE /\ m_cFeatureAtomics' = cFeatureAtomics
            /\ pc' = "returned"
            /\ result' = "success"
            /\ UNCHANGED <<m_aGradients, m_aaInputData, m_cSamples, phases>>
    /\ UNCHANGED <<argVars, heapVars, targetVars, aGradients, inputVars, err>>

\* a plausible slip: the comparison with the class count off by one
TargetCheck_OffByOne(v, countTargetClasses) ==
    IF v < 0 THEN "NegativeLabel"
    ELSE IF ~IsNumberConvertable(StorageMax, v) THEN "LabelOverflow"
    ELSE IF ~IsNumberConvertable(SizeMax, v) THEN "LabelOverflow"
    ELSE IF countTargetClasses < v THEN "LabelOutOfRange"
    ELSE "None"

\* the checks of one target value
TargetCheck(v, countTargetClasses) ==
    IF v < 0 THEN "NegativeLabel"
    ELSE IF ~IsNumberConvertable(StorageMax, v) THEN "LabelOverflow"
    ELSE IF ~IsNumberConvertable(SizeMax, v) THEN "LabelOverflow"
    ELSE IF countTargetClasses <= v THEN "LabelOutOfRange"
    ELSE "None"

\* a plausible slip: the loop left after its first iteration
ValidateTarget_OneIteration ==
    /\ pc = "validate"
    /\ \E v \in IntVals :
        /\ data' = v
        /\ LET e == TargetCheck(v, runtimeLearningTypeOrCountTargetClasses) IN
           IF e # "None"
           THEN ReturnError(e) /\ pTargetFrom' = pTargetFrom
           ELSE /\ pTargetFrom' = pTargetFrom + 1
                /\ pc' = "gradients"
                /\ UNCHANGED <<result, err>>
    /\ UNCHANGED <<argVars, objVars, heapVars, aGradients, inputVars, phases>>

\* one iteration of the target loop; v is *pTargetFrom
ValidateTarget ==
    /\ pc = "validate"
    /\ \E v \in IntVals :
        /\ data' = v
        /\ LET e == TargetCheck(v, runtimeLearningTypeOrCountTargetClasses) IN
           IF e # "None"
           THEN ReturnError(e) /\ pTargetFrom' = pTargetFrom
           ELSE /\ pTargetFrom' = pTargetFrom + 1
                /\ pc' = IF pTargetFrom + 1 = cSamples THEN "gradients" ELSE "validate"
                /\ UNCHANGED <<result, err>>
    /\ UNCHANGED <<argVars, objVars, heapVars, aGradients, inputVars, phases>>

\* a plausible slip: the buffer allocated before the multiplication is checked
ConstructGradientsAlloc_CheckAfter ==
    /\ pc = "gradients"
    /\ phases' = Append(phases, "gradients")
    /\ LET cVectorLength == GetVectorLength(runtimeLearningTypeOrCountTargetClasses) IN
       \E ok \in BOOLEAN :
          IF ~ok
          THEN ReturnError("AllocationFailure") /\ UNCHANGED <<heap, aGradients, freeLog>>
          ELSE IF IsMultiplyError(cSamples, cVectorLength)
          THEN /\ heap' = Free(Append(heap, NewBlock("gradients", 0)), Len(heap) + 1)
               /\ freeLog' = LogFrees(freeLog, <<Len(heap) + 1>>)
               /\ ReturnError("SizeOverflow")
               /\ UNCHANGED aGradients
          ELSE /\ heap' = Append(heap, NewBlock("gradients", cSamples * cVectorLength))
               /\ aGradients' = Len(heap) + 1
               /\ pc' = "init_gradients"
               /\ UNCHANGED <<result, err, freeLog>>
    /\ UNCHANGED <<argVars, objVars, targetVars, inputVars>>

\* ConstructGradients up to the allocation of the buffer
ConstructGradientsAlloc ==
    /\ pc = "gradients"
    /\ phases' = Append(phases, "gradients")
    /\ LET cVectorLength == GetVectorLength(runtimeLearningTypeOrCountTargetClasses) IN
       IF IsMultiplyError(cSamples, cVectorLength)
       THEN ReturnError("SizeOverflow") /\ UNCHANGED <<heap, aGradients>>
       ELSE \E ok \in BOOLEAN :
              IF ok
              THEN /\ heap' = Append(heap, NewBlock("gradients", cSamples * cVectorLength))
                   /\ aGradients' = Len(heap) + 1
                   /\ pc' = "init_gradients"
                   /\ UNCHANGED <<result, err>>
              ELSE ReturnError("AllocationFailure") /\ UNCHANGED <<heap, aGradients>>
    /\ UNCHANGED <<argVars, objVars, freeLog, targetVars, inputVars>>

\* a plausible slip: m_aGradients assigned as soon as the gradients are built
ConstructGradientsFill_EarlyCommit ==
    /\ pc = "init_gradients"
    /\ phases' = Append(phases, "init_gradients")
    /\ \E failed \in BOOLEAN :
         IF failed
         THEN /\ heap' = Free(heap, aGradients)
              /\ freeLog' = LogFrees(freeLog, <<aGradients>>)
              /\ aGradients' = 0
              /\ ReturnError("GradientInitFailed")
              /\ UNCHANGED objVars
         ELSE /\ heap' = [heap EXCEPT ![aGradients].data =
                             [i \in DOMAIN heap[aGradients].data |-> Filled]]
              /\ pc' = IF cFeatureAtomics # 0 THEN "input_outer" ELSE "commit"
              /\ m_aGradients' = aGradients
              /\ UNCHANGED <<freeLog, aGradients, result, err, m_aaInputData,
                             m_cSamples, m_cFeatureAtomics>>
    /\ UNCHANGED <<argVars, targetVars, inputVars>>

\* the call of InitializeGradients and the return to Initialize
ConstructGradientsFill ==
    /\ pc = "init_gradients"
    /\ phases' = Append(phases, "init_gradients")
    /\ \E failed \in BOOLEAN :
         IF failed
         THEN /\ heap' = Free(heap, aGradients)
              /\ freeLog' = LogFrees(freeLog, <<aGradients>>)
              /\ aGradients' = 0
              /\ ReturnError("GradientInitFailed")
         ELSE /\ heap' = [heap EXCEPT ![aGradients].data =
                             [i \in DOMAIN heap[aGradients].data |-> Filled]]
              /\ pc' = IF cFeatureAtomics # 0 THEN "input_outer" ELSE "commit"
              /\ UNCHANGED <<freeLog, aGradients, result, err>>
    /\ UNCHANGED <<argVars, objVars, targetVars, inputVars>>

\* a plausible slip: the comparison with the bin count off by one
BinCheck_OffByOne(v, cBins) ==
    IF v < 0 THEN "NegativeBinIndex"
    ELSE IF ~IsNumberConvertable(StorageMax, v) THEN "BinIndexOverflow"
    ELSE IF ~IsNumberConvertable(SizeMax, v) THEN "BinIndexOverflow"
    ELSE IF cBins < v THEN "BinIndexOutOfRange"
    ELSE "None"

\* the checks of one raw bin value
BinCheck(v, cBins) ==
    IF v < 0 THEN "NegativeBinIndex"
    ELSE IF ~IsNumberConvertable(StorageMax, v) THEN "BinIndexOverflow"
    ELSE IF ~IsNumberConvertable(SizeMax, v) THEN "BinIndexOverflow"
    ELSE IF cBins <= v THEN "BinIndexOutOfRange"
    ELSE "None"

\* a plausible slip: the column taken from the feature's position
InputDataFromStart_ByPosition(f) == (f - 1) * cSamples

\* the offset in aBinnedData of the first value of feature f
InputDataFromStart(f) == aFeatureAtomics[f].iFeatureAtomicData * cSamples

\* ConstructInputData up to the loop: the array of per-feature pointers.
\* When it cannot be allocated Initialize frees the gradients and fails.
ConstructInputDataOuter ==
    /\ pc = "input_outer"
    /\ phases' = Append(phases, "input")
    /\ \E ok \in BOOLEAN :
         IF ok
         THEN /\ heap' = Append(heap, NewBlock("outer", cFeatureAtomics))
              /\ aaInputDataTo' = Len(heap) + 1
              /\ paInputDataTo' = 0
              /\ pFeatureAtomic' = 0
              /\ pc' = "input_inner"
              /\ UNCHANGED <<freeLog, result, err>>
         ELSE /\ heap' = Free(heap, aGradients)
              /\ freeLog' = LogFrees(freeLog, <<aGradients>>)
              /\ ReturnError("AllocationFailure")
              /\ UNCHANGED <<aaInputDataTo, paInputDataTo, pFeatureAtomic>>
    /\ UNCHANGED <<argVars, objVars, targetVars, aGradients, pInputDataTo,
                   pInputDataFrom, inputData>>

\* the head of the feature loop: the buffer of one feature
ConstructInputDataInner ==
    /\ pc = "input_inner"
    /\ \E ok \in BOOLEAN :
         IF ok
         THEN LET p == Len(heap) + 1 IN
              /\ heap' = [Append(heap, NewBlock("inner", cSamples))
                            EXCEPT ![aaInputDataTo].data[paInputDataTo + 1] = p]
              /\ paInputDataTo' = paInputDataTo + 1
              /\ pInputDataTo' = [base |-> p, off |-> 0]
              /\ pInputDataFrom' = InputDataFromStart(pFeatureAtomic + 1)
              /\ pc' = "input_cell"
              /\ UNCHANGED err
         ELSE /\ pc' = "free_all"
              /\ err' = "AllocationFailure"
              /\ UNCHANGED <<heap, paInputDataTo, pInputDataTo, pInputDataFrom>>
    /\ UNCHANGED <<argVars, objVars, freeLog, targetVars, aGradients, aaInputDataTo,
                   pFeatureAtomic, inputData, result, phases>>

\* one iteration of the sample loop, and the tails of both loops
ConstructInputDataCell ==
    /\ pc = "input_cell"
    /\ LET feature == aFeatureAtomics[pFeatureAtomic + 1]
           v == aBinnedData[pInputDataFrom + 1]
           e == BinCheck(v, feature.cBins)
           pInputDataFromEnd == InputDataFromStart(pFeatureAtomic + 1) + cSamples
       IN
       /\ inputData' = v
       /\ IF e # "None"
          THEN /\ pc' = "free_all"
               /\ err' = e
               /\ UNCHANGED <<heap, pInputDataTo, pInputDataFrom, pFeatureAtomic>>
          ELSE /\ heap' = [heap EXCEPT ![pInputDataTo.base].data[pInputDataTo.off + 1] =
                                          NarrowToStorage(v)]
               /\ pInputDataTo' = [pInputDataTo EXCEPT !.off = @ + 1]
               /\ pInputDataFrom' = pInputDataFrom + 1
               /\ UNCHANGED err
               /\ IF pInputDataFrom + 1 # pInputDataFromEnd
                  THEN pc' = "input_cell" /\ pFeatureAtomic' = pFeatureAtomic
                  ELSE /\ pFeatureAtomic' = pFeatureAtomic + 1
                       /\ pc' = IF pFeatureAtomic + 1 # cFeatureAtomics
                                THEN "input_inner" ELSE "commit"
    /\ UNCHANGED <<argVars, objVars, freeLog, targetVars, aGradients, aaInputDataTo,
                   paInputDataTo, result, phases>>

\* a plausible slip: the buffer being filled is not freed
FreeAllOrder_SkipCurrent ==
    [k \in 1..(paInputDataTo - 1) |-> heap[aaInputDataTo].data[paInputDataTo - k]]
        \o <<aaInputDataTo>>

\* the pointers free_all frees, last allocated first, then the outer array
FreeAllOrder ==
    [k \in 1..paInputDataTo |-> heap[aaInputDataTo].data[paInputDataTo + 1 - k]]
        \o <<aaInputDataTo>>

\* free_all in ConstructInputData, then the failure branch of Initialize
FreeAll ==
    /\ pc = "free_all"
    /\ LET ps == FreeAllOrder \o <<aGradients>> IN
       /\ heap' = FreeSeq(heap, ps)
       /\ freeLog' = LogFrees(freeLog, ps)
    /\ pc' = "returned"
    /\ result' = "failure"
    /\ UNCHANGED <<argVars, objVars, targetVars, aGradients, inputVars, err, phases>>

\* a plausible slip: the sample count is not stored
Commit_NoSamples ==
    /\ pc = "commit"
    /\ phases' = Append(phases, "commit")
    /\ m_aaInputData' = IF cFeatureAtomics # 0 THEN aaInputDataTo ELSE m_aaInputData
    /\ m_aGradients' = aGradients
    /\ m_cFeatureAtomics' = cFeatureAtomics
    /\ pc' = "returned"
    /\ result' = "success"
    /\ UNCHANGED <<argVars, heapVars, targetVars, aGradients, inputVars, err,
                   m_cSamples>>

\* the assignments of a successful Initialize
Commit ==
    /\ pc = "commit"
    /\ phases' = Append(phases, "commit")
    /\ m_aaInputData' = IF cFeatureAtomics # 0 THEN aaInputDataTo ELSE m_aaInputData
    /\ m_aGradients' = aGradients
    /\ m_cSamples' = cSamples
    /\ m_cFeatureAtomics' = cFeatureAtomics
    /\ pc' = "returned"
    /\ result' = "success"
    /\ UNCHANGED <<argVars, heapVars, targetVars, aGradients, inputVars, err>>

\* a plausible slip: the outer array freed before the buffers it points to
DestructOrder_OuterFirst ==
    <<m_aGradients>> \o
    ( IF m_aaInputData # 0
      THEN <<m_aaInputData>> \o
              [k \in 1..m_cFeatureAtomics |-> heap[m_aaInputData].data[k]]
      ELSE <<>> )

\* the pointers Destruct frees, in order
DestructOrder ==
    <<m_aGradients>> \o
    ( IF m_aaInputData # 0
      THEN [k \in 1..m_cFeatureAtomics |-> heap[m_aaInputData].data[k]]
              \o <<m_aaInputData>>
      ELSE <<>> )

\* Destruct, on an object Initialize has returned from or never saw
Destruct ==
    /\ pc \in {"new", "returned"}
    /\ heap' = FreeSeq(heap, DestructOrder)
    /\ freeLog' = LogFrees(freeLog, DestructOrder)
    /\ pc' = "destructed"
    /\ UNCHANGED <<argVars, objVars, targetVars, aGradients, inputVars, result,
                   err, phases>>

Next ==
    \/ InitializeEnter
    \/ ValidateTarget
    \/ ConstructGradientsAlloc
    \/ ConstructGradientsFill
    \/ ConstructInputDataOuter
    \/ ConstructInputDataInner
    \/ ConstructInputDataCell
    \/ FreeAll
    \/ Commit
    \/ Destruct

Spec == Init /\ [][Next]_vars

\* ------------------------------------------------------------ the claims
K == runtimeLearningTypeOrCountTargetClasses

LabelErrors == {"NegativeLabel", "LabelOverflow", "LabelOutOfRange"}

ObjectEmpty == m_aGradients = 0 /\ m_aaInputData = 0 /\ m_cSamples = 0

Failed == pc = "returned" /\ result = "failure"

\* Initialize has been called
Called == pc # "new" /\ ~(pc = "destructed" /\ result = "none")

Succeeded == pc = "returned" /\ result = "success"

\* the raw value of feature f (1-based) for sample i (1-based)
Raw(f, i) == aBinnedData[aFeatureAtomics[f].iFeatureAtomicData * cSamples + i]

\* the value stored for feature f and sample i in the committed object
Stored(f, i) == heap[heap[m_aaInputData].data[f]].data[i]

\* a raw value the binned-input builder has to accept
ValidBin(v, cBins) == 0 <= v /\ v <= StorageMax /\ v < cBins

\* (f, i) is the first cell, feature by feature and sample by sample, whose
\* raw value is not valid
FirstInvalid(f, i) ==
    /\ ~ValidBin(Raw(f, i), aFeatureAtomics[f].cBins)
    /\ \A g \in 1..cFeatureAtomics : \A j \in 1..cSamples :
          (g < f \/ (g = f /\ j < i)) => ValidBin(Raw(g, j), aFeatureAtomics[g].cBins)

\* C1: whenever Initialize returns failure the object is still empty:
\* m_aGradients and m_aaInputData are null and m_cSamples is 0.
C1_FailureLeavesEmpty == Failed => ObjectEmpty

\* a failure after every buffer had been allocated
C1_Witness ==
    Failed /\ err = "BinIndexOverflow" /\ Len(heap) = cFeatureAtomics + 2

\* C2: when Initialize returns failure every buffer allocated during the
\* call has been freed exactly once, so nothing allocated is live.
C2_FailureFreesAll ==
    Failed =>
        /\ \A a \in DOMAIN heap : ~heap[a].live /\ heap[a].frees = 1
        /\ Len(freeLog) = Len(heap)
        /\ \A a \in DOMAIN heap : \E k \in DOMAIN freeLog : freeLog[k] = a

\* an invalid value in the second feature's buffer: the gradients, the
\* outer array, a complete buffer and the one being filled are freed
C2_Witness ==
    Failed /\ err = "NegativeBinIndex" /\ Len(heap) = 4 /\ pFeatureAtomic = 1

\* C3: after a successful Initialize with samples and features every stored
\* bin value equals the raw value of its feature's column and lies in
\* 0 .. cBins - 1.
C3_StoredEqualsRaw ==
    (Succeeded /\ cSamples >= 1 /\ cFeatureAtomics >= 1) =>
        \A f \in 1..cFeatureAtomics : \A i \in 1..cSamples :
            /\ Stored(f, i) = Raw(f, i)
            /\ 0 <= Stored(f, i)
            /\ Stored(f, i) < aFeatureAtomics[f].cBins

\* two features whose columns are swapped and differ
C3_Witness ==
    /\ Succeeded /\ cSamples = 2 /\ cFeatureAtomics = 2
    /\ aFeatureAtomics[1].iFeatureAtomicData = 1
    /\ Stored(1, 1) = 1 /\ Stored(1, 2) = 0 /\ Stored(2, 1) = 0 /\ Stored(2, 2) = 0

\* C4: with cSamples = 0 Initialize succeeds without allocating or validating
\* anything, the buffers stay empty, the feature count is recorded, and a
\* following Destruct frees nothing.
C4_EmptyFrame ==
    (cSamples = 0 /\ pc \in {"returned", "destructed"} /\ result # "none") =>
        /\ result = "success"
        /\ heap = <<>> /\ freeLog = <<>>
        /\ ObjectEmpty
        /\ m_cFeatureAtomics = cFeatureAtomics
        /\ phases = <<>> /\ data = Uninit /\ inputData = Uninit

C4_Witness ==
    pc = "destructed" /\ result = "success" /\ cSamples = 0
       /\ cFeatureAtomics = 2 /\ K = 0

\* C5: in a classification a target value v >= K makes Initialize fail with
\* a label error, the object empty and nothing allocated; the gradient
\* builder is reached only when every one of the cSamples targets was read
\* and accepted.
C5_BadLabelFails ==
    (IsClassification(K) /\ cSamples >= 1) =>
        /\ (data # Uninit /\ data >= K) =>
              /\ pc \in {"returned", "destructed"}
              /\ result = "failure"
              /\ err \in LabelErrors
              /\ heap = <<>>
              /\ ObjectEmpty
        /\ (Called /\ pc # "validate" /\ result # "failure") =>
              pTargetFrom = cSamples

\* the second target is the class count
C5_Witness ==
    Failed /\ IsClassification(K) /\ pTargetFrom = 1 /\ data = K
       /\ err = "LabelOutOfRange"

Overflows == cSamples >= 1 /\ cSamples * GetVectorLength(K) > SizeMax

\* C6 as stated: when cSamples * cVectorLength overflows, Initialize fails
\* with SizeOverflow before any allocation.
C6_Original ==
    (Overflows /\ pc = "returned") =>
        result = "failure" /\ err = "SizeOverflow" /\ heap = <<>>

\* C6 amended: when cSamples * cVectorLength overflows nothing is ever
\* allocated and Initialize fails: with SizeOverflow when every target
\* passed validation, with the label error of the first invalid target
\* otherwise.
C6_OverflowFails ==
    Overflows =>
        /\ heap = <<>>
        /\ pc \notin {"init_gradients", "input_outer", "input_inner", "input_cell",
                      "free_all", "commit"}
        /\ pc = "returned" =>
              /\ result = "failure"
              /\ IF pTargetFrom = cSamples
                 THEN err = "SizeOverflow"
                 ELSE err \in LabelErrors

C6_Witness == Failed /\ Overflows /\ err = "SizeOverflow" /\ pTargetFrom = cSamples

\* ConstructInputData was called and Initialize has returned
InputDataBuilt ==
    /\ pc = "returned"
    /\ \E k \in DOMAIN phases : phases[k] = "input"

\* C7 as stated: when some raw bin value equals the bin count of its
\* feature, construction fails with BinIndexOutOfRange whatever the other
\* values are.
C7_Original ==
    ( /\ InputDataBuilt
      /\ \E f \in 1..cFeatureAtomics : \E i \in 1..cSamples :
            Raw(f, i) = aFeatureAtomics[f].cBins ) =>
        result = "failure" /\ err = "BinIndexOutOfRange"

\* C7 amended: when the first raw value, feature by feature and sample by
\* sample, that is not a valid bin index equals the bin count of its feature
\* and fits the storage type, and no allocation fails before it is read,
\* construction fails with BinIndexOutOfRange.
C7_FirstInvalidDecides ==
    ( /\ InputDataBuilt
      /\ err # "AllocationFailure"
      /\ \E f \in 1..cFeatureAtomics : \E i \in 1..cSamples :
            /\ FirstInvalid(f, i)
            /\ Raw(f, i) = aFeatureAtomics[f].cBins
            /\ Raw(f, i) <= StorageMax ) =>
        result = "failure" /\ err = "BinIndexOutOfRange"

\* the last value of the second feature is its bin count
C7_Witness ==
    /\ InputDataBuilt /\ err = "BinIndexOutOfRange"
    /\ cFeatureAtomics = 2 /\ cSamples = 2
    /\ FirstInvalid(2, 2)
    /\ Raw(2, 2) = aFeatureAtomics[2].cBins

\* C8: Destruct on a committed object frees the gradient buffer, then the
\* buffer of each feature, then the outer array, each once and none stays
\* live; Destruct on an empty object frees nothing.
C8_DestructFrees ==
    [][ pc' = "destructed" =>
          IF m_aGradients = 0 /\ m_aaInputData = 0
          THEN heap' = heap /\ freeLog' = freeLog
          ELSE /\ freeLog = <<>>
               /\ freeLog' =
                    <<m_aGradients>> \o
                    ( IF m_aaInputData = 0 THEN <<>>
                      ELSE [k \in 1..m_cFeatureAtomics |-> heap[m_aaInputData].data[k]]
                              \o <<m_aaInputData>> )
               /\ Len(freeLog') = Len(heap)
               /\ \A a \in DOMAIN heap :
                     heap[a].live /\ ~heap'[a].live /\ heap'[a].frees = 1
      ]_vars

\* a committed object with two features, destructed
C8_Witness ==
    /\ pc = "destructed" /\ result = "success"
    /\ cSamples >= 1 /\ cFeatureAtomics = 2 /\ Len(freeLog) = 4

\* C9: when Initialize returns, the gradient buffer is there iff
\* m_cSamples > 0 and the binned columns are there iff m_cSamples > 0 and
\* m_cFeatureAtomics > 0, with one live buffer of m_cSamples values per
\* feature.
C9_AllOrNothing ==
    pc = "returned" =>
        /\ (m_aGradients # 0) <=> (m_cSamples > 0)
        /\ (m_aaInputData # 0) <=> (m_cSamples > 0 /\ m_cFeatureAtomics > 0)
        /\ m_aGradients # 0 =>
              /\ heap[m_aGradients].live
              /\ Len(heap[m_aGradients].data) = m_cSamples * GetVectorLength(K)
              /\ \A i \in DOMAIN heap[m_aGradients].data :
                    heap[m_aGradients].data[i] = Filled
        /\ m_aaInputData # 0 =>
              /\ heap[m_aaInputData].live
              /\ Len(heap[m_aaInputData].data) = m_cFeatureAtomics
              /\ \A f \in 1..m_cFeatureAtomics :
                    LET p == heap[m_aaInputData].data[f] IN
                    /\ p \in DOMAIN heap
                    /\ heap[p].live
                    /\ heap[p].kind = "inner"
                    /\ Len(heap[p].data) = m_cSamples
                    /\ \A i \in 1..m_cSamples : heap[p].data[i] # Uninit
                    /\ \A g \in 1..m_cFeatureAtomics :
                          heap[m_aaInputData].data[g] = p => g = f

\* samples but no features: gradients and no binned columns
C9_Witness ==
    /\ Succeeded /\ m_cSamples = 2 /\ m_cFeatureAtomics = 0
    /\ m_aGradients # 0 /\ m_aaInputData = 0

PhaseOrder == <<"validate", "gradients", "init_gradients", "input", "commit">>

PhaseRank(ph) == CHOOSE r \in DOMAIN PhaseOrder : PhaseOrder[r] = ph

Entered(ph) == \E k \in DOMAIN phases : phases[k] = ph

\* C10: with samples the phases are entered in the order validation,
\* gradient building, binned-input building, commit: InitializeGradients is
\* called only after every target passed validation, ConstructInputData only
\* after the gradients were built, and no field is written before the commit.
C10_PhasesInOrder ==
    cSamples >= 1 =>
        /\ \A k \in DOMAIN phases : \A l \in DOMAIN phases :
              k < l => PhaseRank(phases[k]) < PhaseRank(phases[l])
        /\ (IsClassification(K) /\ Called) => Entered("validate")
        /\ (IsClassification(K) /\ (pc = "gradients" \/ Entered("gradients"))) =>
              pTargetFrom = cSamples /\ 0 <= data /\ data < K
        /\ Entered("init_gradients") => Entered("gradients")
        /\ (pc = "input_outer" \/ Entered("input")) =>
              /\ Entered("init_gradients")
              /\ aGradients # 0
              /\ \A i \in DOMAIN heap[aGradients].data :
                    heap[aGradients].data[i] = Filled
        /\ (pc = "commit" \/ Entered("commit")) =>
              /\ Entered("init_gradients")
              /\ cFeatureAtomics # 0 =>
                    Entered("input") /\ pFeatureAtomic = cFeatureAtomics
        /\ ~Entered("commit") =>
              ObjectEmpty /\ m_cFeatureAtomics = 0

\* a classification with features, committed
C10_Witness ==
    Succeeded /\ phases = PhaseOrder /\ cFeatureAtomics = 2 /\ cSamples = 2
====
